---- MODULE Spec2Model ----
(***************************************************************************)
(* Model of the Newport MS260i driver, src/spectrometerClass.py (class     *)
(* Spectrometer) and of its command loop, src/spec_command.py.             *)
(*                                                                         *)
(* The driver is single threaded and every call blocks until it returns.   *)
(* One action is one call of a public method, up to its return or up to    *)
(* the point where giveCommand enters its status loop (pc = "Moving").     *)
(* In the loop one action is one getStatusByte() and the loop test; when   *)
(* the test lets the loop end, the same action runs the rest of the call.  *)
(* What the instrument answers (its status byte, a unit reply the driver   *)
(* does not recognise, a lost reply) is drawn with \E at the action.       *)
(*                                                                         *)
(* Conventions of the translation                                          *)
(*  - Python floats are modelled as exact rationals <<num, den>>, den > 0, *)
(*    in lowest terms.                                                     *)
(*  - Python strings the code inspects character by character (unit names, *)
(*    grating arguments, status bytes) are sequences of one-character      *)
(*    strings.                                                             *)
(*  - A command line is a record [verb, q, n, s]: the first token is verb, *)
(*    followed by "?" when q; n is the numeric argument (NoNum if none)    *)
(*    and s the textual argument (<<>> if none).  A numeric token is       *)
(*    identified with its value, so 'gowave 573' and 'gowave 573.0' are    *)
(*    one command line.                                                    *)
(*  - A Python value is a record [t, n, s]: its type tag, its number and   *)
(*    its text.                                                            *)
(***************************************************************************)
EXTENDS Integers, Sequences, FiniteSets, TLC

VARIABLES
    unit,   \* self.unit: the cached unit, a str, or the int 0
    auto,   \* self.auto
    dev,    \* the instrument behind self.dev: [unit, grat, wave, pend]
    pc,     \* "Idle": no call is running; "Moving": a call is in the status loop
    after,  \* in the loop: where the call goes on when the loop ends
    polls,  \* in the loop: the status bytes read so far that kept it going
    op,     \* the current or last call: [name, a, b, line]
    io,     \* the transfers on self.dev during that call, in order
    ret,    \* what that call returned
    prev    \* history: <<n, k>> when the call before was setGrating(n), n in 1..3,
            \* and transmitted k select commands; else <<0, 0>>

vars == <<unit, auto, dev, pc, after, polls, op, io, ret, prev>>

(***************************************************************************)
(* Bounds                                                                  *)
(***************************************************************************)
\* The instrument reports a status that keeps the loop going at most this
\* many times in a row.
MaxPolls == 2

(***************************************************************************)
(* Rationals                                                               *)
(***************************************************************************)
Abs(x) == IF x < 0 THEN -x ELSE x

RECURSIVE GCD(_, _)
GCD(a, b) == IF b = 0 THEN a ELSE GCD(b, a % b)

Norm(n, d) ==
    LET g == GCD(Abs(n), Abs(d))
        sg == IF d < 0 THEN -1 ELSE 1
    IN  <<sg * (n \div g), sg * (d \div g)>>

Rat(n) == <<n, 1>>
RAdd(x, y) == Norm(x[1] * y[2] + y[1] * x[2], x[2] * y[2])
RSub(x, y) == Norm(x[1] * y[2] - y[1] * x[2], x[2] * y[2])
RMul(x, y) == Norm(x[1] * y[1], x[2] * y[2])
RDiv(x, y) == Norm(x[1] * y[2], x[2] * y[1])
RLt(x, y) == x[1] * y[2] < y[1] * x[2]
\* int(float): truncation toward zero
Trunc(x) == IF x[1] >= 0 THEN x[1] \div x[2] ELSE -((-x[1]) \div x[2])

\* "no numeric argument"
NoNum == <<0, 0>>

(***************************************************************************)
(* Strings and Python values                                               *)
(***************************************************************************)
nm == <<"n", "m">>
um == <<"u", "m">>
wn == <<"w", "n">>

\* str.lower() on the letters the model's strings are made of
LowerChar(c) ==
    CASE c = "N" -> "n"
      [] c = "M" -> "m"
      [] c = "U" -> "u"
      [] c = "W" -> "w"
      [] OTHER -> c

Lower(s) == [i \in 1..Len(s) |-> LowerChar(s[i])]

\* `sub in s` for Python strings
Contains(sub, s) ==
    \E i \in 1..(Len(s) - Len(sub) + 1) : SubSeq(s, i, i + Len(sub) - 1) = sub

PyNone == [t |-> "none", n |-> NoNum, s |-> <<>>]
PyInt(k) == [t |-> "int", n |-> Rat(k), s |-> <<>>]
PyFloat(x) == [t |-> "float", n |-> x, s |-> <<>>]
PyBool(b) == [t |-> "bool", n |-> Rat(IF b THEN 1 ELSE 0), s |-> <<>>]
PyStr(s) == [t |-> "str", n |-> NoNum, s |-> s]
\* a str that reads as the number x
PyNumStr(x) == [t |-> "str", n |-> x, s |-> <<>>]

Digits == <<"0", "1", "2", "3", "4", "5", "6", "7", "8", "9">>
IsDigit(c) == \E d \in 1..10 : Digits[d] = c
DigitVal(c) == (CHOOSE d \in 1..10 : Digits[d] = c) - 1

RECURSIVE StripLeft(_)
StripLeft(s) == IF s # <<>> /\ Head(s) = " " THEN StripLeft(Tail(s)) ELSE s

RECURSIVE StripRight(_)
StripRight(s) ==
    IF s # <<>> /\ s[Len(s)] = " " THEN StripRight(SubSeq(s, 1, Len(s) - 1)) ELSE s

RECURSIVE DecValue(_)
DecValue(s) == IF s = <<>> THEN 0 ELSE 10 * DecValue(SubSeq(s, 1, Len(s) - 1)) + DigitVal(s[Len(s)])

\* int(s) for a str: blanks stripped, an optional sign, then decimal digits only
ParseInt(s) ==
    LET t == StripRight(StripLeft(s))
        signed == t # <<>> /\ Head(t) \in {"+", "-"}
        ds == IF signed THEN Tail(t) ELSE t
        good == ds # <<>> /\ \A i \in 1..Len(ds) : IsDigit(ds[i])
    IN  [ok |-> good,
         n |-> IF ~good THEN 0 ELSE IF signed /\ Head(t) = "-" THEN -DecValue(ds) ELSE DecValue(ds)]

\* int(v): [ok |-> FALSE] stands for the TypeError or ValueError int() raises
int(v) ==
    CASE v.t \in {"int", "bool"} -> [ok |-> TRUE, n |-> v.n[1]]
      [] v.t = "float" -> [ok |-> TRUE, n |-> Trunc(v.n)]
      [] v.t = "str" /\ v.n # NoNum -> [ok |-> v.n[2] = 1, n |-> IF v.n[2] = 1 THEN v.n[1] ELSE 0]
      [] v.t = "str" -> ParseInt(v.s)
      [] OTHER -> [ok |-> FALSE, n |-> 0]

(***************************************************************************)
(* Command lines and the transfer log                                      *)
(***************************************************************************)
Line(verb, q, n, s) == [verb |-> verb, q |-> q, n |-> n, s |-> s]
Query(verb) == Line(verb, TRUE, NoNum, <<>>)

\* string.split()[0]
FirstToken(string) == <<string.verb, string.q>>

\* string[-1] == '?': the line is its first token alone, and that ends with "?"
EndsWithQ(string) == string.q /\ string.n = NoNum /\ string.s = <<>>

\* 'grat ' + str(grat): a number, or a str that reads as one, is a numeric token
GratLine(grat) ==
    CASE grat.t \in {"int", "float"} -> Line("grat", FALSE, grat.n, <<>>)
      [] grat.t = "str" /\ ParseInt(grat.s).ok ->
            Line("grat", FALSE, Rat(ParseInt(grat.s).n), <<>>)
      [] grat.t = "str" -> Line("grat", FALSE, NoNum, grat.s)
      [] grat.t = "bool" ->
            Line("grat", FALSE, NoNum,
                 IF grat.n = Rat(1) THEN <<"T", "r", "u", "e">> ELSE <<"F", "a", "l", "s", "e">>)
      [] OTHER -> Line("grat", FALSE, NoNum, <<"N", "o", "n", "e">>)

\* One transfer: k = "w" a write of the line, "r" a read of the reply (in n or
\* s), "x" a read that raised.
Wr(string) == [k |-> "w", verb |-> string.verb, q |-> string.q, n |-> string.n, s |-> string.s]
Rd(n, s) == [k |-> "r", verb |-> "", q |-> FALSE, n |-> n, s |-> s]
RdRaised == [k |-> "x", verb |-> "", q |-> FALSE, n |-> NoNum, s |-> <<>>]

(***************************************************************************)
(* The instrument behind self.dev                                          *)
(*                                                                         *)
(* It stores the value of 'gowave', makes n the active grating on          *)
(* 'grat n', makes u the active unit on 'units u', and answers 'wave?',    *)
(* 'grat?' and 'units?' from what it stores.  pend is the query it has     *)
(* still to answer.                                                        *)
(***************************************************************************)
Units == {nm, um, wn}
StatusBytes == {<<"0", "0">>, <<"0", "1">>, <<"3", "2">>, <<"1", "3", "2">>}

\* The instrument takes the line the driver wrote.  A 'grat' argument that is
\* a number but not 1, 2 or 3 written out is either refused or cut to its
\* integer part: lenient says which.
DevWrite(d, string, lenient) ==
    IF EndsWithQ(string) THEN [d EXCEPT !.pend = string.verb]
    ELSE IF string.verb = "gowave" /\ string.n # NoNum THEN [d EXCEPT !.wave = string.n]
    ELSE IF string.verb = "grat" /\ string.n # NoNum
            /\ Trunc(string.n) \in 1..3 /\ (string.n[2] = 1 \/ lenient)
         THEN [d EXCEPT !.grat = Trunc(string.n)]
    ELSE IF string.verb = "units" /\ string.s \in Units THEN [d EXCEPT !.unit = string.s]
    ELSE d

\* The line the instrument sends back for its pending query.  sb is the status
\* byte it reports now; blank says that its 'units?' line is none the driver
\* knows.
DevReply(d, sb, blank) ==
    CASE d.pend = "wave" -> PyNumStr(d.wave)
      [] d.pend = "grat" -> PyNumStr(Rat(d.grat))
      [] d.pend = "units" -> PyStr(IF blank THEN <<>> ELSE d.unit)
      [] d.pend = "stb" -> PyStr(sb)
      [] OTHER -> PyStr(<<>>)

(***************************************************************************)
(* Program constants                                                       *)
(***************************************************************************)
Offset == 73
Thousand == 1000
TenMillion == 10000000
LowEdge == 430
HighEdge == 625

(***************************************************************************)
(* The driver: class Spectrometer                                          *)
(*                                                                         *)
(* Its methods are operators on a record w, the run of a call:             *)
(*   self_unit  self.unit                                                  *)
(*   dev, io    the instrument and the transfers so far                    *)
(*   sb         the status byte the instrument reports now                 *)
(*   blank, lost, lenient   what else the instrument does now              *)
(*   exc        an exception is propagating                                *)
(*   moving     giveCommand has entered its status loop; after says where  *)
(*              the call goes on when the loop ends                        *)
(*   r          the value the method returned                              *)
(***************************************************************************)
convert(w, u, c) ==
    LET w1 == IF u = PyStr(um) THEN RMul(w, Rat(Thousand))
              ELSE IF u = PyStr(wn) THEN RDiv(Rat(TenMillion), w)
              ELSE w
    IN  IF c = PyStr(nm) THEN w1
        ELSE IF c = PyStr(um) THEN RDiv(w1, Rat(Thousand))
        ELSE RDiv(Rat(TenMillion), w1)

\* r = self.dev.read(...); a reply to 'grat?' or 'wave?' that is lost raises
read(w) ==
    IF w.lost /\ w.dev.pend \in {"grat", "wave"}
    THEN [w EXCEPT !.exc = TRUE, !.io = Append(@, RdRaised), !.dev.pend = ""]
    ELSE LET sr == DevReply(w.dev, w.sb, w.blank)
         IN  [w EXCEPT !.r = sr, !.io = Append(@, Rd(sr.n, sr.s)), !.dev.pend = ""]

\* mutant: the move is sent as given
Biased_NoOffset(string) == string

\* the line giveCommand writes: string = command + ' ' + str(value + 73)
Biased(string) ==
    IF FirstToken(string) = <<"gowave", FALSE>>
    THEN Line("gowave", FALSE, RAdd(string.n, Rat(Offset)), <<>>)
    ELSE string

\* Up to the status loop: the write, and for a query the read.  A line that
\* is no query leaves the run in the loop.
giveCommand(w, string) ==
    LET command == FirstToken(string)
        subtract == command = <<"wave", TRUE>>
        sent == Biased(string)
        w1 == [w EXCEPT !.dev = DevWrite(w.dev, sent, w.lenient), !.io = Append(@, Wr(sent))]
    IN  IF EndsWithQ(sent)
        THEN LET w2 == read(w1)
             IN  IF w2.exc THEN w2
                 ELSE IF subtract
                 THEN [w2 EXCEPT !.r = PyNumStr(RSub(w2.r.n, convert(Rat(Offset), PyStr(nm), w.self_unit)))]
                 ELSE w2
        ELSE [w1 EXCEPT !.moving = TRUE, !.after = "giveCommand", !.r = PyNone]

getStatusByte(w) == giveCommand(w, Query("stb"))

\* mutant: '0' in sb for '00' == sb
StillMoving_AnyZero(sb) == ~(Contains(<<"0">>, sb) \/ Contains(<<"3", "2">>, sb))

\* the loop test: not ('00' == sb or '32' in sb)
StillMoving(sb) == ~(<<"0", "0">> = sb \/ Contains(<<"3", "2">>, sb))

\* the first field of the reply, or of [0,0,0] when giveCommand raised
getGrating(w) ==
    LET w1 == giveCommand(w, Query("grat"))
    IN  IF w1.exc THEN [w1 EXCEPT !.exc = FALSE, !.r = PyInt(0)] ELSE w1

\* mutant: the lower limit is let in (0 <= grat < 4)
validGratingInput_ZeroAllowed(grat) ==
    LET g == int(grat) IN g.ok /\ 0 <= g.n /\ g.n < 4

validGratingInput(grat) ==
    LET g == int(grat) IN g.ok /\ 0 < g.n /\ g.n < 4

\* mutant: the select command is sent without comparing with the active grating
setGrating_NoCompare(w, grat) ==
    IF ~validGratingInput(grat) THEN [w EXCEPT !.r = PyInt(1)]
    ELSE [giveCommand(getGrating(w), GratLine(grat)) EXCEPT !.after = "setGrating"]

setGrating(w, grat) ==
    IF ~validGratingInput(grat) THEN [w EXCEPT !.r = PyInt(1)]
    ELSE LET w1 == getGrating(w)
         IN  IF int(grat).n = int(w1.r).n THEN [w1 EXCEPT !.r = PyInt(1)]
             ELSE [giveCommand(w1, GratLine(grat)) EXCEPT !.after = "setGrating"]

\* setGrating once the loop has ended
setGratingEnd(w) == [w EXCEPT !.r = PyInt(1)]

\* mutant: the reply is returned whatever it is
getUnits_Unchecked(w) == giveCommand(w, Query("units"))

getUnits(w) ==
    LET w1 == giveCommand(w, Query("units"))
    IN  IF w1.r.s \in Units THEN w1 ELSE [w1 EXCEPT !.r = PyInt(0)]

\* mutant: the unit is looked up as given, not lower-cased
setUnits_CaseSensitive(w, u) ==
    IF u.s \notin Units THEN [w EXCEPT !.r = PyInt(0)]
    ELSE [giveCommand(w, Line("units", FALSE, NoNum, u.s)) EXCEPT !.after = "setUnits"]

setUnits(w, u) ==
    LET lu == Lower(u.s)
    IN  IF lu \notin Units THEN [w EXCEPT !.r = PyInt(0)]
        ELSE [giveCommand(w, Line("units", FALSE, NoNum, lu)) EXCEPT !.after = "setUnits"]

\* setUnits once the loop has ended
setUnitsEnd(w, u) == [w EXCEPT !.self_unit = PyStr(Lower(u.s)), !.r = PyInt(1)]

\* mutant: the edges of the ranges fall to the outer gratings (<=, >=)
AutoGrating_EdgesOutside(nw) ==
    IF ~RLt(Rat(LowEdge), nw) THEN 1 ELSE IF ~RLt(nw, Rat(HighEdge)) THEN 3 ELSE 2

\* the grating setWavelength asks for in auto mode
AutoGrating(nw) ==
    IF RLt(nw, Rat(LowEdge)) THEN 1 ELSE IF RLt(Rat(HighEdge), nw) THEN 3 ELSE 2

\* setWavelength from curUnits = self.getUnits() on
setWavelengthMove(w, wavelength, units) ==
    LET w1 == getUnits(w)
        curUnits == w1.r
        target == IF PyStr(Lower(units.s)) # curUnits
                  THEN convert(wavelength.n, units, curUnits)
                  ELSE wavelength.n
    IN  [giveCommand(w1, Line("gowave", FALSE, target, <<>>)) EXCEPT !.after = "setWavelength"]

setWavelength(w, self_auto, wavelength, units) ==
    LET w1 == IF self_auto
              THEN setGrating(w, PyInt(AutoGrating(convert(wavelength.n, units, PyStr(nm)))))
              ELSE w
    IN  IF w1.moving THEN [w1 EXCEPT !.after = "setWavelength.setGrating"]
        ELSE setWavelengthMove(w1, wavelength, units)

\* setWavelength once the loop of its move has ended
setWavelengthEnd(w) == [w EXCEPT !.r = PyNone]

getWavelength(w) ==
    LET w1 == giveCommand(w, Query("wave"))
    IN  IF w1.exc THEN [w1 EXCEPT !.exc = FALSE, !.r = PyInt(0)]
        ELSE [w1 EXCEPT !.r = PyFloat(w1.r.n)]

\* the second definition of setAuto, the one the class ends up with
setAuto(self_auto, setTo) ==
    IF setTo.t # "bool" THEN [auto |-> self_auto, r |-> PyNone]
    ELSE [auto |-> (setTo.n = Rat(1)), r |-> PyNone]

\* the rest of the call once the status loop has ended
AfterLoop(w, call) ==
    CASE w.after = "setGrating" -> setGratingEnd(w)
      [] w.after = "setUnits" -> setUnitsEnd(w, call.a)
      [] w.after = "setWavelength.setGrating" -> setWavelengthMove(w, call.a, call.b)
      [] w.after = "setWavelength" -> setWavelengthEnd(w)
      [] OTHER -> [w EXCEPT !.r = PyNone]

(***************************************************************************)
(* What the callers pass                                                   *)
(***************************************************************************)
GratingInputs ==
    {PyInt(k) : k \in 0..4}
        \cup {PyStr(<<"2">>), PyStr(<<"a", "b", "c">>), PyFloat(<<5, 2>>), PyBool(TRUE), PyNone}

UnitInputs ==
    {PyStr(nm), PyStr(um), PyStr(wn), PyStr(<<"N", "M">>), PyStr(<<"m", "m">>), PyStr(<<>>)}

AutoInputs == {PyBool(TRUE), PyBool(FALSE), PyInt(1), PyStr(<<"T", "r", "u", "e">>), PyNone}

\* wavelengths below, at, between and above the edges of the auto-grating ranges
WavelengthInputs ==
    {<<PyInt(v), PyStr(nm)>> : v \in {400, 430, 500, 625, 700}}
        \cup {<<PyFloat(<<1, 2>>), PyStr(um)>>, <<PyInt(20000), PyStr(wn)>>}

\* one wavelength in each unit: 500 nm, 0.5 um, 20000 1/cm
MoveInputs ==
    {<<PyInt(500), PyStr(nm)>>, <<PyFloat(<<1, 2>>), PyStr(um)>>, <<PyInt(20000), PyStr(wn)>>}

\* the lines typed at the 'Enter command: ' prompt
CommandInputs ==
    {Line("units", FALSE, NoNum, um), Line("units", FALSE, NoNum, nm),
     Line("gowave", FALSE, Rat(500), <<>>), Line("grat", FALSE, Rat(2), <<>>),
     Line("shutter", FALSE, NoNum, <<"o">>),
     Query("wave"), Query("grat"), Query("units"), Query("stb"), Query("shutter")}

NoLine == Line("", FALSE, NoNum, <<>>)

(***************************************************************************)
(* The calls                                                               *)
(***************************************************************************)
Run(self_unit, d, log, sb, blank, lost, lenient) ==
    [self_unit |-> self_unit, dev |-> d, io |-> log, sb |-> sb,
     blank |-> blank, lost |-> lost, lenient |-> lenient,
     exc |-> FALSE, moving |-> FALSE, after |-> "", r |-> PyNone]

Call(name, a, b, line) == [name |-> name, a |-> a, b |-> b, line |-> line]

\* the call has returned, or waits in the status loop, as run w says
Returns(w, call) ==
    /\ unit' = w.self_unit
    /\ dev' = w.dev
    /\ io' = w.io
    /\ pc' = IF w.moving THEN "Moving" ELSE "Idle"
    /\ after' = IF w.moving THEN w.after ELSE ""
    /\ polls' = 0
    /\ ret' = IF w.moving THEN PyNone ELSE w.r
    /\ op' = call

\* Spectrometer(): units, auto, and the unit the instrument reports
Init ==
    \E u \in Units, g \in 1..3, blank \in BOOLEAN :
        LET d == [unit |-> u, grat |-> g, wave |-> Rat(500 + Offset), pend |-> ""]
            w == getUnits(Run(PyNone, d, <<>>, <<>>, blank, FALSE, FALSE))
        IN  /\ unit = w.r
            /\ auto = FALSE
            /\ dev = w.dev
            /\ pc = "Idle"
            /\ after = ""
            /\ polls = 0
            /\ op = Call("__init__", PyNone, PyNone, NoLine)
            /\ io = w.io
            /\ ret = PyNone
            /\ prev = <<0, 0>>

\* a call begins: no other is running
Begins ==
    /\ pc = "Idle"
    /\ prev' = IF op.name = "setGrating" /\ op.a \in {PyInt(1), PyInt(2), PyInt(3)}
               THEN <<op.a.n[1], Cardinality({i \in DOMAIN io : io[i].k = "w" /\ io[i].verb = "grat" /\ ~io[i].q})>>
               ELSE <<0, 0>>

SetGrating ==
    \E grat \in GratingInputs, lost \in BOOLEAN, lenient \in BOOLEAN :
        /\ Begins
        /\ Returns(setGrating(Run(unit, dev, <<>>, <<>>, FALSE, lost, lenient), grat),
                   Call("setGrating", grat, PyNone, NoLine))
        /\ UNCHANGED auto

GetGrating ==
    \E lost \in BOOLEAN :
        /\ Begins
        /\ Returns(getGrating(Run(unit, dev, <<>>, <<>>, FALSE, lost, FALSE)),
                   Call("getGrating", PyNone, PyNone, NoLine))
        /\ UNCHANGED auto

GetUnits ==
    \E blank \in BOOLEAN :
        /\ Begins
        /\ Returns(getUnits(Run(unit, dev, <<>>, <<>>, blank, FALSE, FALSE)),
                   Call("getUnits", PyNone, PyNone, NoLine))
        /\ UNCHANGED auto

SetUnits ==
    \E u \in UnitInputs :
        /\ Begins
        /\ Returns(setUnits(Run(unit, dev, <<>>, <<>>, FALSE, FALSE, FALSE), u),
                   Call("setUnits", u, PyNone, NoLine))
        /\ UNCHANGED auto

SetAuto ==
    \E setTo \in AutoInputs :
        LET res == setAuto(auto, setTo)
        IN  /\ Begins
            /\ auto' = res.auto
            /\ ret' = res.r
            /\ io' = <<>>
            /\ op' = Call("setAuto", setTo, PyNone, NoLine)
            /\ UNCHANGED <<unit, dev, pc, after, polls>>

SetWavelengthOf(inputs) ==
    \E wu \in inputs, blank \in BOOLEAN, lost \in BOOLEAN :
        /\ Begins
        /\ Returns(setWavelength(Run(unit, dev, <<>>, <<>>, blank, lost, FALSE), auto, wu[1], wu[2]),
                   Call("setWavelength", wu[1], wu[2], NoLine))
        /\ UNCHANGED auto

GetWavelength ==
    \E lost \in BOOLEAN :
        /\ Begins
        /\ Returns(getWavelength(Run(unit, dev, <<>>, <<>>, FALSE, lost, FALSE)),
                   Call("getWavelength", PyNone, PyNone, NoLine))
        /\ UNCHANGED auto

\* spec_command.py: spec.giveCommand(cmd)
GiveCommand ==
    \E string \in CommandInputs :
        /\ Begins
        /\ Returns(giveCommand(Run(unit, dev, <<>>, <<>>, FALSE, FALSE, FALSE), string),
                   Call("giveCommand", PyNone, PyNone, string))
        /\ UNCHANGED auto

\* giveCommand's status loop: sb = self.getStatusByte() and the test.  While
\* the test holds the loop goes on; when it fails the call runs to its end,
\* or to its next status loop.
StatusLoop ==
    \E sb \in StatusBytes, blank \in BOOLEAN :
        LET w == getStatusByte(Run(unit, dev, io, sb, blank, FALSE, FALSE))
        IN  /\ pc = "Moving"
            /\ IF StillMoving(w.r.s)
               THEN /\ polls < MaxPolls
                    /\ io' = w.io
                    /\ dev' = w.dev
                    /\ polls' = polls + 1
                    /\ UNCHANGED <<unit, auto, pc, after, op, ret, prev>>
               ELSE /\ Returns(AfterLoop([w EXCEPT !.after = after], op), op)
                    /\ UNCHANGED <<auto, prev>>

\* The instrument's unit is changed behind the driver's back (its hand
\* controller, another program).
UnitChangedOutOfBand ==
    \E u \in Units :
        /\ u # dev.unit
        /\ dev' = [dev EXCEPT !.unit = u]
        /\ IF pc = "Idle"
           THEN /\ op' = Call("(out of band)", PyNone, PyNone, NoLine)
                /\ io' = <<>>
                /\ ret' = PyNone
           ELSE UNCHANGED <<op, io, ret>>
        /\ UNCHANGED <<unit, auto, pc, after, polls, prev>>

SetWavelength == SetWavelengthOf(WavelengthInputs)

Next ==
    \/ SetGrating
    \/ GetGrating
    \/ GetUnits
    \/ SetUnits
    \/ SetAuto
    \/ SetWavelength
    \/ GetWavelength
    \/ GiveCommand
    \/ StatusLoop
    \/ UnitChangedOutOfBand

Spec == Init /\ [][Next]_vars

(***************************************************************************)
(* Spec is every call in every order.  The claims are checked under the    *)
(* specifications below, each the calls one group of claims is about, with *)
(* the whole transfer log of the current call in the state.                *)
(***************************************************************************)
\* the calls that select: gratings, units, auto mode
NextSettings ==
    \/ SetGrating
    \/ GetGrating
    \/ GetUnits
    \/ SetUnits
    \/ SetAuto
    \/ StatusLoop
    \/ UnitChangedOutOfBand

SpecSettings == Init /\ [][NextSettings]_vars

\* setWavelength in and out of auto mode
NextAuto ==
    \/ SetAuto
    \/ SetWavelengthOf(WavelengthInputs)
    \/ StatusLoop

SpecAuto == Init /\ [][NextAuto]_vars

\* moves and wavelength queries, with the unit changing under them
NextMove ==
    \/ SetUnits
    \/ SetWavelengthOf(MoveInputs)
    \/ GetWavelength
    \/ GiveCommand
    \/ StatusLoop
    \/ UnitChangedOutOfBand

SpecMove == Init /\ [][NextMove]_vars

(***************************************************************************)
(* Reading the transfer log                                                *)
(***************************************************************************)
\* a transmitted 'grat <n>' select command
IsSelect(e) == e.k = "w" /\ e.verb = "grat" /\ ~e.q
Selects(log) == Cardinality({i \in DOMAIN log : IsSelect(log[i])})
\* a transmitted query, answered
Answered(log, verb) ==
    \E i \in 1..(Len(log) - 1) : log[i] = Wr(Query(verb)) /\ log[i + 1].k = "r"
SetGratingOf(g) == Call("setGrating", g, PyNone, NoLine)
SetUnitsOf(u) == Call("setUnits", u, PyNone, NoLine)

(***************************************************************************)
(* C1  setGrating is idempotent.  For n in {1,2,3}: one call setGrating(n) *)
(* transmits the select command at most once; a call setGrating(n) that    *)
(* follows a call setGrating(n), and whose 'grat?' the instrument answers, *)
(* transmits none and returns; the two calls together transmit it at most  *)
(* once.                                                                   *)
(***************************************************************************)
C1_SetGratingIdempotent ==
    \A n \in 1..3 :
        op = SetGratingOf(PyInt(n)) =>
            /\ Selects(io) <= 1
            /\ (prev[1] = n /\ Answered(io, "grat")) =>
                    (Selects(io) = 0 /\ prev[2] + Selects(io) <= 1 /\ pc = "Idle")

\* the second of two calls setGrating(2), the first of which selected: the
\* second asked, was answered 2, and selected nothing
C1_Witness ==
    /\ prev = <<2, 1>>
    /\ op = SetGratingOf(PyInt(2))
    /\ io = <<Wr(Query("grat")), Rd(Rat(2), <<>>)>>
    /\ ret = PyInt(1)

(***************************************************************************)
(* C2  setGrating(g), g a value outside {1,2,3} or one int() does not      *)
(* convert, transmits no select command, and the instrument's active       *)
(* grating stays what it was.                                              *)
(***************************************************************************)
\* the value of g is one of 1, 2, 3: as a number, or as a str that reads as one
C2_InSet(g) ==
    \/ g.t \in {"int", "float", "bool"} /\ g.n \in {Rat(1), Rat(2), Rat(3)}
    \/ g.t = "str" /\ ParseInt(g.s).ok /\ ParseInt(g.s).n \in {1, 2, 3}

C2_OutsideNoSelect ==
    [][(pc = "Idle" /\ op'.name = "setGrating" /\ (~int(op'.a).ok \/ ~C2_InSet(op'.a))) =>
            (Selects(io') = 0 /\ dev'.grat = dev.grat)]_vars

(***************************************************************************)
(* C2, amended.  setGrating(g) transmits nothing, and the instrument's     *)
(* active grating stays what it was, when int(g) raises or is outside      *)
(* {1,2,3}.  (A number that is no integer is cut to its integer part       *)
(* first: 2.5 is taken for 2 and 'grat 2.5' is transmitted.)               *)
(***************************************************************************)
Rejected(g) == ~int(g).ok \/ int(g).n \notin {1, 2, 3}

C2_InvalidGratingNoSelect ==
    [][(pc = "Idle" /\ op'.name = "setGrating" /\ Rejected(op'.a)) =>
            (io' = <<>> /\ dev'.grat = dev.grat /\ pc' = "Idle")]_vars

\* setGrating(4) has returned and the log of the call is empty
C2_Witness == op = SetGratingOf(PyInt(4)) /\ io = <<>> /\ pc = "Idle" /\ ret = PyInt(1)

(***************************************************************************)
(* C3  setUnits(u), u a str.  When u.lower() is none of nm, um, wn the     *)
(* call transmits nothing, leaves self.unit as it was and returns 0.       *)
(* When it is one of them the call transmits 'units <u.lower()>' first,    *)
(* and when it returns self.unit is u.lower() and the value returned is 1. *)
(***************************************************************************)
C3_SetUnits ==
    /\ [](\A u \in UnitInputs :
            (op = SetUnitsOf(u) /\ Lower(u.s) \in {nm, um, wn}) =>
                /\ io # <<>>
                /\ io[1] = Wr(Line("units", FALSE, NoNum, Lower(u.s)))
                /\ pc = "Idle" => (unit = PyStr(Lower(u.s)) /\ ret = PyInt(1)))
    /\ [][(pc = "Idle" /\ op'.name = "setUnits" /\ Lower(op'.a.s) \notin {nm, um, wn}) =>
            (io' = <<>> /\ unit' = unit /\ dev' = dev /\ ret' = PyInt(0) /\ pc' = "Idle")]_vars

\* setUnits('NM') has returned 1 after two polls, and the cached unit is nm
C3_Witness ==
    /\ op = SetUnitsOf(PyStr(<<"N", "M">>))
    /\ pc = "Idle"
    /\ unit = PyStr(nm)
    /\ ret = PyInt(1)
    /\ io[1] = Wr(Line("units", FALSE, NoNum, nm))
    /\ Len(io) = 5

(***************************************************************************)
(* C7  A validation failure is reported by a value that tells it from      *)
(* success: setGrating with an invalid grating, setUnits with an invalid   *)
(* unit string and setAuto with a flag that is no bool return a value      *)
(* other than the one the operation returns for valid input (1 for         *)
(* setGrating and setUnits, None for setAuto).                             *)
(***************************************************************************)
C7_FailureSentinel ==
    pc = "Idle" =>
        /\ (op.name = "setGrating" /\ Rejected(op.a)) => ret # PyInt(1)
        /\ (op.name = "setUnits" /\ Lower(op.a.s) \notin {nm, um, wn}) => ret # PyInt(1)
        /\ (op.name = "setAuto" /\ op.a.t # "bool") => ret # PyNone

(***************************************************************************)
(* C10  After construction the cached unit is always one of nm, um, wn.    *)
(***************************************************************************)
C10_CachedUnitInSet == unit \in {PyStr(nm), PyStr(um), PyStr(wn)}

(***************************************************************************)
(* C10, amended.  The cached unit is one of nm, um, wn or the int 0.  It   *)
(* is 0 after construction exactly when the instrument's answer to         *)
(* 'units?' was none of the three strings; it changes only to one of the   *)
(* three, so once it is one of them it stays one of them.                  *)
(***************************************************************************)
C10_CachedUnitOrZero ==
    /\ [](/\ unit \in {PyStr(nm), PyStr(um), PyStr(wn), PyInt(0)}
          /\ op.name = "__init__" => (unit = PyInt(0) <=> io[2].s \notin {nm, um, wn}))
    /\ [][unit' # unit => unit' \in {PyStr(nm), PyStr(um), PyStr(wn)}]_vars

\* the cached unit is still 0 after a setUnits call that was refused
C10_Witness ==
    /\ unit = PyInt(0)
    /\ op = SetUnitsOf(PyStr(<<"m", "m">>))
    /\ ret = PyInt(0)

(***************************************************************************)
(* C4  In auto mode setWavelength(w, unit) asks for the grating of the     *)
(* target in nm: 1 below 430, 3 above 625, 2 otherwise (400, 500, 700 nm   *)
(* ask for 1, 2, 3; 430 and 625 ask for 2).  It queries the active grating *)
(* first, selects no other grating than that one, and leaves that one      *)
(* active.  Out of auto mode it transmits no grating query and no select.  *)
(***************************************************************************)
SetWavelengthCall(wu) == Call("setWavelength", wu[1], wu[2], NoLine)

C4_Policy(wu) ==
    LET nw == convert(wu[1].n, wu[2], PyStr(nm))
    IN  IF RLt(nw, Rat(430)) THEN 1 ELSE IF RLt(Rat(625), nw) THEN 3 ELSE 2

C4_AutoGrating ==
    /\ C4_Policy(<<PyInt(400), PyStr(nm)>>) = 1
    /\ C4_Policy(<<PyInt(500), PyStr(nm)>>) = 2
    /\ C4_Policy(<<PyInt(700), PyStr(nm)>>) = 3
    /\ C4_Policy(<<PyInt(430), PyStr(nm)>>) = 2
    /\ C4_Policy(<<PyInt(625), PyStr(nm)>>) = 2
    /\ \A wu \in WavelengthInputs :
            op = SetWavelengthCall(wu) =>
                IF auto
                THEN /\ io[1] = Wr(Query("grat"))
                     /\ Selects(io) <= 1
                     /\ \A i \in DOMAIN io : IsSelect(io[i]) => io[i].n = Rat(C4_Policy(wu))
                     /\ dev.grat = C4_Policy(wu)
                ELSE \A i \in DOMAIN io : io[i].verb # "grat"

\* in auto mode setWavelength(430, 'nm') has selected grating 2 and returned
C4_Witness ==
    /\ auto
    /\ op = SetWavelengthCall(<<PyInt(430), PyStr(nm)>>)
    /\ pc = "Idle"
    /\ io[3] = Wr(Line("grat", FALSE, Rat(2), <<>>))
    /\ dev.grat = 2

(***************************************************************************)
(* C5  End to end: setWavelength(v, 'nm'), the instrument answering nm to  *)
(* 'units?'.  The call queries the unit (first of all out of auto mode),   *)
(* then transmits one move command, for v + 73 (573 for v = 500), reads    *)
(* nothing for it but polls 'stb?', and has returned, without a value,     *)
(* exactly when the last status polled is '00' or holds '32'; after the    *)
(* status bytes 01, 32 it has returned.                                    *)
(***************************************************************************)
IsMove(e) == e.k = "w" /\ e.verb = "gowave"
C5_Done(sb) == sb = <<"0", "0">> \/ Contains(<<"3", "2">>, sb)

C5_EndToEndMove ==
    \A v \in {400, 430, 500, 625, 700} :
        \A k \in DOMAIN io :
            (/\ op = SetWavelengthCall(<<PyInt(v), PyStr(nm)>>)
             /\ io[k] = Wr(Query("units"))
             /\ io[k + 1] = Rd(NoNum, nm)) =>
                /\ ~auto => k = 1
                /\ \A i \in DOMAIN io : IsMove(io[i]) <=> i = k + 2
                /\ io[k + 2] = Wr(Line("gowave", FALSE, Rat(v + 73), <<>>))
                /\ \A i \in (k + 3)..Len(io) :
                        IF (i - k) % 2 = 1 THEN io[i] = Wr(Query("stb")) ELSE io[i].k = "r"
                /\ pc = "Idle" <=> (Len(io) >= k + 4 /\ io[Len(io)].k = "r" /\ C5_Done(io[Len(io)].s))
                /\ pc = "Idle" => ret = PyNone
                /\ (Len(io) = k + 6 /\ io[k + 4].s = <<"0", "1">> /\ io[k + 6].s = <<"3", "2">>)
                        => pc = "Idle"

\* setWavelength(500, 'nm') out of auto mode: units?, nm, gowave 573, and the
\* status bytes 01 and 32; the call has returned
C5_Witness ==
    /\ op = SetWavelengthCall(<<PyInt(500), PyStr(nm)>>)
    /\ io = <<Wr(Query("units")), Rd(NoNum, nm), Wr(Line("gowave", FALSE, Rat(573), <<>>)),
              Wr(Query("stb")), Rd(NoNum, <<"0", "1">>), Wr(Query("stb")), Rd(NoNum, <<"3", "2">>)>>
    /\ pc = "Idle"
    /\ ret = PyNone

(***************************************************************************)
(* C6  Calibration offset round trip.  The instrument stores the value of  *)
(* 'gowave' and returns it on 'wave?'; it has reported its active unit to  *)
(* the move and the driver's cached unit is that unit.  Then               *)
(* setWavelength(v, u) followed by getWavelength() returns v expressed in  *)
(* the instrument's active unit, whichever of nm, um, wn that is.          *)
(***************************************************************************)
C6_OffsetRoundTrip ==
    [][(/\ pc = "Idle"
        /\ op.name = "setWavelength"
        /\ io[2] = Rd(NoNum, dev.unit)
        /\ unit = PyStr(dev.unit)
        /\ op'.name = "getWavelength"
        /\ io'[2].k = "r") =>
            ret' = PyFloat(convert(op.a.n, op.b, PyStr(dev.unit)))]_vars

(***************************************************************************)
(* C8  giveCommand, Idle and Moving.  A line that ends with '?' is one     *)
(* write and one read, and the driver never enters the status loop for it. *)
(* Any other line is written and puts the driver in Moving; there it only  *)
(* writes 'stb?' and reads the status; it has polled at least once when it *)
(* returns, the last status polled is then '00' or holds '32', and no      *)
(* status polled before that was.                                          *)
(***************************************************************************)
C8_Done(sb) == sb = <<"0", "0">> \/ Contains(<<"3", "2">>, sb)

C8_IdleMoving ==
    (op.name = "giveCommand") =>
        IF op.line.q /\ op.line.n = NoNum /\ op.line.s = <<>>
        THEN /\ pc = "Idle"
             /\ Len(io) = 2
             /\ io[1] = Wr(op.line)
             /\ io[2].k = "r"
        ELSE /\ io[1].k = "w" /\ io[1].verb = op.line.verb /\ ~io[1].q
             /\ \A i \in 2..Len(io) :
                    IF i % 2 = 0 THEN io[i] = Wr(Query("stb")) ELSE io[i].k = "r"
             /\ \A i \in 2..(Len(io) - 1) : i % 2 = 1 => ~C8_Done(io[i].s)
             /\ pc = "Idle" <=> (Len(io) >= 3 /\ Len(io) % 2 = 1 /\ C8_Done(io[Len(io)].s))
             /\ pc = "Moving" \/ ret = PyNone

\* 'units um' typed at the prompt: written, status 01 polled, then 132, and
\* only then has the call returned
C8_Witness ==
    /\ op.name = "giveCommand"
    /\ op.line = Line("units", FALSE, NoNum, um)
    /\ pc = "Idle"
    /\ io = <<Wr(op.line), Wr(Query("stb")), Rd(NoNum, <<"0", "1">>),
              Wr(Query("stb")), Rd(NoNum, <<"1", "3", "2">>)>>

(***************************************************************************)
(* C9  The value a 'wave?' query returns is the instrument's reply less    *)
(* 73 nm expressed in the instrument's active unit at the time of the      *)
(* query, whatever calls and out-of-band unit changes came before.  (The   *)
(* cached unit is one of nm, um, wn here: the case of C10 is left out.)    *)
(***************************************************************************)
C9_OffsetInActiveUnit ==
    (/\ op.name = "getWavelength" \/ (op.name = "giveCommand" /\ op.line = Query("wave"))
     /\ Len(io) = 2
     /\ io[2].k = "r"
     /\ unit \in {PyStr(nm), PyStr(um), PyStr(wn)}) =>
        ret.n = RSub(io[2].n, convert(Rat(73), PyStr(nm), PyStr(dev.unit)))

====
